---- MODULE Spec2Model ----
(***************************************************************************)
(* Model of the OSINT search engine: the browser-side OSINTEngine          *)
(* (src/Javascript/os-int.js) driving the server's generic search endpoint *)
(* POST /api/search/:platform (src/unnamed/part_001).                      *)
(*                                                                         *)
(* Text values (queries, urls, descriptions, messages) are sequences of    *)
(* string tokens; a query is a sequence of one-character strings.          *)
(***************************************************************************)
EXTENDS Integers, Sequences, FiniteSets, TLC

\* ------------------------------------------------------------------ bounds

\* the longest platform list of the first search on an engine
MaxPlatforms == 2

\* the longest platform list of a search that follows or overlaps another
MaxLaterPlatforms == 1

\* ------------------------------------------------------------- JS values

Null == <<"#null">>
Undefined == <<"#undefined">>

\* JavaScript truthiness of a text value (null, undefined and "" are falsy).
Truthy(v) == v # Null /\ v # Undefined /\ v # <<>>

\* a || b on text values
OrElse(a, b) == IF Truthy(a) THEN a ELSE b

Whitespace == {" ", "\t"}
Digits == {"0", "1", "2", "3", "4", "5", "6", "7", "8", "9"}

RECURSIVE TrimStart(_)
TrimStart(s) ==
    IF s # <<>> /\ Head(s) \in Whitespace THEN TrimStart(Tail(s)) ELSE s

RECURSIVE TrimEnd(_)
TrimEnd(s) ==
    IF s # <<>> /\ s[Len(s)] \in Whitespace
    THEN TrimEnd(SubSeq(s, 1, Len(s) - 1))
    ELSE s

\* String.prototype.trim
Trim(s) == TrimEnd(TrimStart(s))

\* one character of encodeURIComponent: letters, digits, '-' and '.' are kept
EncodeChar(c) ==
    CASE c = "@" -> "%40"
      [] c = " " -> "%20"
      [] c = "\t" -> "%09"
      [] c = "+" -> "%2B"
      [] OTHER -> c

encodeURIComponent(s) == [i \in 1..Len(s) |-> EncodeChar(s[i])]

\* ---------------------------------------------------------- input validation

SearchTypes == {"email", "phone", "username", "name"}

\* [^\s@]+ over s[a..b]
NoSpaceNoAt(s, a, b) ==
    a <= b /\ \A k \in a..b : s[k] \notin (Whitespace \cup {"@"})

\* /^[^\s@]+@[^\s@]+\.[^\s@]+$/.test(s)
emailRegex(s) ==
    \E i, j \in 1..Len(s) :
        /\ s[i] = "@"
        /\ s[j] = "."
        /\ NoSpaceNoAt(s, 1, i - 1)
        /\ NoSpaceNoAt(s, i + 1, j - 1)
        /\ NoSpaceNoAt(s, j + 1, Len(s))

\* the phone pattern without its leading anchor: it matches at the end of s
phoneRegexUnanchored(s) ==
    \E from \in 1..(Len(s) + 1) :
        LET tail == SubSeq(s, from, Len(s))
            rest == IF tail # <<>> /\ Head(tail) = "+" THEN Tail(tail) ELSE tail
        IN  /\ Len(rest) >= 10
            /\ \A k \in 1..Len(rest) : rest[k] \in (Digits \cup Whitespace \cup {"-"})

\* /^\+?[\d\s-]{10,}$/.test(s)
phoneRegex(s) ==
    LET rest == IF s # <<>> /\ Head(s) = "+" THEN Tail(s) ELSE s
    IN  /\ Len(rest) >= 10
        /\ \A k \in 1..Len(rest) : rest[k] \in (Digits \cup Whitespace \cup {"-"})

Accepted == <<"#ok">>

\* a validator whose length checks let a text one character shorter pass
validateShorterTexts(query, type) ==
    CASE type = "email" /\ ~emailRegex(query) -> <<"Invalid email format">>
      [] type = "phone" /\ ~phoneRegex(query) -> <<"Invalid phone number format">>
      [] type = "username" /\ Len(query) < 2 ->
            <<"Username must be at least 3 characters long">>
      [] type = "name" /\ Len(query) < 1 ->
            <<"Name must be at least 2 characters long">>
      [] OTHER -> Accepted

\* validateSearchInput: Accepted (returns true) or the message of the Error thrown
validateSearchInput(query, type) ==
    CASE type = "email" /\ ~emailRegex(query) -> <<"Invalid email format">>
      [] type = "phone" /\ ~phoneRegex(query) -> <<"Invalid phone number format">>
      [] type = "username" /\ Len(query) < 3 ->
            <<"Username must be at least 3 characters long">>
      [] type = "name" /\ Len(query) < 2 ->
            <<"Name must be at least 2 characters long">>
      [] OTHER -> Accepted

\* validateInput(query, type); utils is what the predicate of Utils that the
\* type selects (isValidEmail, isValidPhone, isValidUsername) says of query
validateInput(query, type, utils) ==
    CASE type \in {"email", "phone", "username"} -> utils
      [] type = "name" -> Len(query) >= 2
      [] OTHER -> FALSE

\* a validation that looks at the type before it looks at the query
TypeCheckedFirst(query, type) ==
    IF type = "" \/ type \notin SearchTypes
    THEN <<"Invalid search type">>
    ELSE IF query = <<>> \/ Trim(query) = <<>>
    THEN <<"Search query cannot be empty">>
    ELSE Accepted

\* the basic input validation at the head of performSearch:
\* Accepted or the message of the Error thrown
BasicInputValidation(query, type) ==
    IF query = <<>> \/ Trim(query) = <<>>
    THEN <<"Search query cannot be empty">>
    ELSE IF type = "" \/ type \notin SearchTypes
    THEN <<"Invalid search type">>
    ELSE Accepted

\* --------------------------------------------------------------- the server

\* what the vendor behind a server-side adapter does with one request
VendorOutcomes == {"ok", "fail", "nokey"}

Body(found, url, description, status, error, data) ==
    [found |-> found, url |-> url, description |-> description,
     status |-> status, error |-> error, data |-> data]

Returned(body) == [threw |-> FALSE, message |-> <<>>, body |-> body]
Thrown(message) ==
    [threw |-> TRUE, message |-> message,
     body |-> Body(FALSE, Undefined, Undefined, Undefined, Undefined, Undefined)]

VendorData == <<"#vendor-data">>

GoogleSearch(query, type, vendor) ==
    LET searchUrl == <<"https://www.google.com/search?q=">> \o encodeURIComponent(query)
        mapsUrl == <<"https://www.google.com/maps/search/">> \o encodeURIComponent(query)
    IN  IF vendor # "ok"
        THEN Returned(Body(FALSE, searchUrl, <<"No results returned from SERP API">>,
                           Undefined, <<"SERP API request failed">>, Undefined))
        ELSE IF type \in {"places", "geocode"}
        THEN Returned(Body(TRUE, mapsUrl, <<"Google ", type, " results for ">> \o query,
                           Undefined, Undefined, VendorData))
        ELSE Returned(Body(TRUE, searchUrl, <<"Google search results for ">> \o query,
                           Undefined, Undefined, VendorData))

HunterSearch(query, type, vendor) ==
    LET failed(message) ==
            Returned(Body(FALSE, Undefined, <<"Error searching Hunter.io: ">> \o message,
                          <<"error">>, message, Undefined))
    IN  CASE vendor = "nokey" -> failed(<<"Hunter.io API key not configured">>)
          [] vendor = "fail" /\ type \in {"domain", "email"} ->
                failed(<<"Request failed">>)
          [] type \notin {"domain", "email"} ->
                failed(<<"Cannot read properties of undefined (reading 'data')">>)
          [] OTHER ->
                Returned(Body(TRUE,
                    IF type = "domain"
                    THEN <<"https://hunter.io/search/">> \o encodeURIComponent(query)
                    ELSE <<"https://hunter.io/email-verifier/">> \o encodeURIComponent(query),
                    <<"Hunter.io ", type, " search results for ">> \o query,
                    <<"found">>, Undefined, VendorData))

GithubSearch(query, type, vendor) ==
    LET searchUrl == <<"https://github.com/search?q=">> \o encodeURIComponent(query)
                        \o <<"&type=users">>
    IN  IF vendor = "fail"
        THEN Returned(Body(FALSE, searchUrl, <<"Error searching GitHub: ", "fetch failed">>,
                           <<"error">>, <<"fetch failed">>, Undefined))
        ELSE Returned(Body(TRUE,
                IF type = "username"
                THEN <<"https://github.com/">> \o encodeURIComponent(query)
                ELSE searchUrl,
                <<"GitHub search results for ">> \o query,
                <<"found">>, Undefined, VendorData))

\* handlePlatformSearch(platform, query, type)
handlePlatformSearch(platform, query, type, vendor) ==
    CASE platform = "google" -> GoogleSearch(query, type, vendor)
      [] platform = "facebook" ->
            Returned(Body(TRUE,
                <<"https://www.facebook.com/search/top?q=">> \o encodeURIComponent(query),
                <<"Facebook search results for ">> \o query,
                <<"found">>, Undefined, Undefined))
      [] platform = "twitter" ->
            Returned(Body(TRUE,
                <<"https://twitter.com/search?q=">> \o encodeURIComponent(query),
                <<"Twitter search results for ">> \o query,
                <<"found">>, Undefined, Undefined))
      [] platform = "instagram" ->
            Returned(Body(TRUE,
                IF type = "username"
                THEN <<"https://www.instagram.com/">> \o encodeURIComponent(query) \o <<"/">>
                ELSE <<"https://www.instagram.com/explore/tags/">>
                        \o encodeURIComponent(query) \o <<"/">>,
                <<"Instagram ", IF type = "username" THEN "profile" ELSE "search", " for ">>
                    \o query,
                <<"found">>, Undefined, Undefined))
      [] platform = "hunter" -> HunterSearch(query, type, vendor)
      [] platform = "github" -> GithubSearch(query, type, vendor)
      [] platform = "reddit" ->
            Returned(Body(TRUE,
                IF type = "username"
                THEN <<"https://www.reddit.com/user/">> \o encodeURIComponent(query)
                ELSE <<"https://www.reddit.com/search/?q=">> \o encodeURIComponent(query),
                <<"Reddit ", IF type = "username" THEN "user profile" ELSE "search results",
                  " for ">> \o query,
                <<"found">>, Undefined, Undefined))
      [] platform = "youtube" ->
            Returned(Body(TRUE,
                <<"https://www.youtube.com/results?search_query=">>
                    \o encodeURIComponent(query),
                <<"YouTube search results for ">> \o query,
                <<"found">>, Undefined, Undefined))
      [] OTHER -> Thrown(<<"Platform ", platform, " not supported">>)

\* app.post('/api/search/:platform'): the HTTP status and the JSON body sent
SearchEndpoint(platform, query, type, vendor) ==
    IF query = <<>>
    THEN [status |-> "400",
          body |-> Body(FALSE, Undefined, Undefined, Undefined,
                        <<"Query is required">>, Undefined)]
    ELSE LET searchType == IF type = "" THEN "search" ELSE type
             result == handlePlatformSearch(platform, query, searchType, vendor)
         IN  IF result.threw
             THEN [status |-> "500",
                   body |-> Body(FALSE, Undefined, Undefined, Undefined,
                                 result.message, Undefined)]
             ELSE [status |-> "200", body |-> result.body]

\* --------------------------------------------------- the engine's formatters

\* data.<name> on a response body: undefined when the body has no such property
Prop(data, name) == IF name \in DOMAIN data THEN data[name] ELSE Undefined

\* v > 0 for a property of a response body (undefined > 0 is false)
GreaterThanZero(v) == v = <<"#positive">>

Result(platform, status, url, description, content) ==
    [platform |-> platform, status |-> status, url |-> url,
     description |-> description, content |-> content]

\* the templates of generateFoundContent are keyed by display name
TemplateNames ==
    {"Google", "Facebook", "Twitter", "Instagram", "LinkedIn", "GitHub", "Reddit", "YouTube"}

generateFoundContent(platform, query, type) ==
    IF platform \in TemplateNames
    THEN <<"<found-content ", platform, ">", type, ": ">> \o query
    ELSE <<"<found-content>", "Information found on ", platform, " for ", type, ": ">>
            \o query

formatTruecallerResult(data) ==
    LET name == Prop(data, "name")
    IN  Result("TrueCaller",
               IF Truthy(name) THEN "found" ELSE "not-found",
               Null,
               IF Truthy(name) THEN <<"Name: ">> \o name ELSE <<"No information found">>,
               generateFoundContent("TrueCaller", Prop(data, "query"), Prop(data, "type")))

formatTwitterResult(data) ==
    LET user == Prop(data, "data")
    IN  Result("Twitter",
               IF Truthy(user) THEN "found" ELSE "not-found",
               IF Truthy(user) THEN <<"https://twitter.com/", "undefined">> ELSE Null,
               IF Truthy(user) THEN <<"Twitter user found: @", "undefined">>
                               ELSE <<"No Twitter account found">>,
               generateFoundContent("Twitter", Prop(data, "query"), Prop(data, "type")))

formatGithubResult(data) ==
    LET count == Prop(data, "total_count")
    IN  Result("GitHub",
               IF GreaterThanZero(count) THEN "found" ELSE "not-found",
               OrElse(Prop(data, "items"), Null),
               IF GreaterThanZero(count) THEN <<"GitHub user found: ">> \o Prop(data, "items")
                                         ELSE <<"No GitHub account found">>,
               generateFoundContent("GitHub", Prop(data, "query"), Prop(data, "type")))

formatWhatsAppResult(data) ==
    LET contacts == Prop(data, "contacts")
    IN  Result("WhatsApp",
               IF Truthy(contacts) THEN "found" ELSE "not-found",
               Null,
               IF Truthy(contacts) THEN <<"WhatsApp account exists">>
                                   ELSE <<"No WhatsApp account found">>,
               generateFoundContent("WhatsApp", Prop(data, "query"), Prop(data, "type")))

formatUPIResult(data) ==
    LET valid == Prop(data, "valid")
    IN  Result("UPI",
               IF Truthy(valid) THEN "found" ELSE "not-found",
               Null,
               IF Truthy(valid) THEN <<"Valid UPI ID: ">> \o Prop(data, "vpa")
                                ELSE <<"Invalid UPI handle">>,
               generateFoundContent("UPI", Prop(data, "query"), Prop(data, "type")))

formatDefaultResult(platform, data, query, type) ==
    Result(platform,
           IF data.found THEN "found" ELSE "not-found",
           OrElse(data.url, Null),
           OrElse(data.description, <<"Search completed on ", platform>>),
           generateFoundContent(platform, query, type))

formatSearchResult(platformKey, data, query, type) ==
    CASE platformKey = "truecaller" -> formatTruecallerResult(data)
      [] platformKey = "twitter" -> formatTwitterResult(data)
      [] platformKey = "github" -> formatGithubResult(data)
      [] platformKey = "whatsapp" -> formatWhatsAppResult(data)
      [] platformKey = "upi" -> formatUPIResult(data)
      [] OTHER -> formatDefaultResult(platformKey, data, query, type)

\* an error result that says nothing of what went wrong
ErrorResultWithoutCause(platformKey, message) ==
    Result(platformKey, "error", Null, <<"Error: ">>, Undefined)

\* the errorResult built in the catch block of searchPlatform
ErrorResult(platformKey, message) ==
    Result(platformKey, "error", Null, <<"Error: ">> \o message, Undefined)

\* handleRateLimit(response): the message of the Error thrown for a 429, with
\* retryAfter the Retry-After header (Null when the response has none);
\* Accepted when it returns
handleRateLimit(status, retryAfter) ==
    IF status = "429"
    THEN <<"Rate limit exceeded. Please try again after ">>
            \o (IF Truthy(retryAfter) THEN retryAfter ELSE <<"60">>)
            \o <<" seconds.">>
    ELSE Accepted

\* ----------------------------------------------- one request of searchPlatform

\* how the fetch of /api/search/<platform> ends: the response is delivered, the
\* request fails in transit, the server's rate limiter answers 429, or the body
\* delivered is not JSON
NetOutcomes == {"delivered", "netfail", "limited", "badjson"}

\* the server-side adapters that call a vendor
VendorOutcomesOf(platform) ==
    CASE platform = "hunter" -> VendorOutcomes
      [] platform \in {"google", "github"} -> {"ok", "fail"}
      [] OTHER -> {"ok"}

\* the outcomes one request for platform can have
Outcomes(platform) ==
    {o \in [net : NetOutcomes, vendor : VendorOutcomes] :
        /\ o.vendor \in VendorOutcomesOf(platform)
        /\ o.net \in {"netfail", "limited"} => o.vendor = "ok"}

\* the JSON the engine parses: the endpoint's body with the echoed query and type
ResponseData(body, query, type) ==
    [p \in DOMAIN body \cup {"query", "type"} |->
        CASE p = "query" -> query
          [] p = "type" -> IF type = "" THEN "search" ELSE type
          [] OTHER -> body[p]]

HttpError(status) == <<"HTTP error! status: ", status>>

\* the result searchPlatform builds for one request that ended with outcome o
SearchPlatformResult(platformKey, query, type, o) ==
    LET response == SearchEndpoint(platformKey, query, type, o.vendor)
    IN  CASE o.net = "netfail" -> ErrorResult(platformKey, <<"Failed to fetch">>)
          [] o.net = "limited" -> ErrorResult(platformKey, HttpError("429"))
          [] o.net # "netfail" /\ o.net # "limited" /\ response.status # "200" ->
                ErrorResult(platformKey, HttpError(response.status))
          [] o.net = "badjson" /\ response.status = "200" ->
                ErrorResult(platformKey, <<"Unexpected token < in JSON at position 0">>)
          [] OTHER ->
                formatSearchResult(platformKey,
                                   ResponseData(response.body, query, type), query, type)

\* ------------------------------------------------------------------ inputs

Runs == {"A", "B"}

Q_empty == <<>>
Q_blank == <<" ", " ">>
Q_octocat == <<"o", "c", "t", "o", "c", "a", "t">>
Q_ab == <<"a", "b">>
Q_a == <<"a">>
Q_123 == <<"1", "2", "3">>
Q_notAnEmail == <<"n", "o", "t", "-", "a", "n", "-", "e", "m", "a", "i", "l">>
Q_email == <<"a", "@", "b", ".", "c">>

\* the (query, type) pairs a caller passes to performSearch
SearchInputs ==
    ({Q_empty, Q_blank} \X {"email", "phone", "username", "name", "domain", ""})
    \cup ({Q_octocat} \X {"username", "domain", ""})
    \cup {<<Q_ab, "username">>, <<Q_a, "name">>, <<Q_123, "phone">>,
          <<Q_notAnEmail, "email">>, <<Q_email, "email">>}

Platforms == {"twitter", "github", "hunter", "reddit", "unknown-platform"}

RECURSIVE ListsOver(_, _)
ListsOver(S, n) ==
    IF n = 0 THEN {<<>>}
    ELSE LET shorter == ListsOver(S, n - 1)
         IN  shorter \cup {Append(l, p) : l \in shorter, p \in S}

\* a list with one platform of each kind of result: found, not-found and error
MixedList == <<"github", "reddit", "unknown-platform">>

PlatformLists == ListsOver(Platforms, MaxPlatforms) \cup {MixedList}

\* the inputs of the searches that follow or overlap another search
LaterInputs == {<<Q_empty, "username">>, <<Q_octocat, "username">>}
LaterPlatforms == {"twitter", "unknown-platform"}
LaterPlatformLists == ListsOver(LaterPlatforms, MaxLaterPlatforms)

\* the searches of a caller that runs the same search twice
MaxRepeatPlatforms == 2
RepeatPlatforms == {"reddit", "github", "unknown-platform"}
RepeatPlatformLists == ListsOver(RepeatPlatforms, MaxRepeatPlatforms)

\* the texts and types a caller passes to the validators: every text of up to
\* MaxTextLen characters over TextAlphabet, and the texts of up to MaxPhoneLen
\* digits, with a leading '+' or without, in which at most one digit is
\* replaced by another character
MaxTextLen == 5
MaxPhoneLen == 11
TextAlphabet == {"a", "@", ".", " "}
PhoneOddChars == {"-", " ", "a", "+"}
ShortTexts == ListsOver(TextAlphabet, MaxTextLen)
PhoneBodies ==
    UNION {{[i \in 1..n |-> IF i = k THEN c ELSE "1"] : k \in 0..n, c \in PhoneOddChars} :
                n \in 0..MaxPhoneLen}
PhoneTexts == PhoneBodies \cup {<<"+">> \o body : body \in PhoneBodies}
ValidatorTexts == ShortTexts \cup PhoneTexts
ValidatorTypes == SearchTypes \cup {"domain", ""}

\* ------------------------------------------------------------------- state

VARIABLES
    heap,               \* the arrays allocated by `[]`, by reference
    results,            \* this.results: a reference into heap
    searchProgress,     \* this.searchProgress
    totalPlatforms,     \* this.totalPlatforms
    completedSearches,  \* this.completedSearches
    pc,                 \* where each invocation of performSearch stands
    query,              \* the arguments of each invocation
    type,
    selectedPlatforms,
    idx,                \* the position of the for...of loop in selectedPlatforms
    returned,           \* the reference an invocation returned
    thrown,             \* the message of the Error an invocation threw
    inflight,           \* fetch requests issued and not yet settled
    events,             \* the updateProgress calls of each invocation, in order
    requests,           \* per position, the number of fetch requests issued
    outcome,            \* per position, how the request ended
    waits,              \* the `await this.delay(1000)` an invocation has sat through
    previous,           \* what a caller that compares two searches kept of the first
    validated           \* a call of a validator: its arguments and what came of it

vars == <<heap, results, searchProgress, totalPlatforms, completedSearches, pc, query,
          type, selectedPlatforms, idx, returned, thrown, inflight, events, requests,
          outcome, waits, previous, validated>>

ArrIds == 1..(Cardinality(Runs) + 1)

\* no reference (returned[r] is the set of the references r returned: one or none)
NoRef == {}

\* the array references the callers (ret) and the engine (res) still hold
Referenced(res, ret) == res \cup UNION {ret[r] : r \in Runs}

\* an array nothing refers to any more is gone
Collected(h, res, ret) ==
    [a \in ArrIds |-> IF a \in Referenced(res, ret) THEN h[a] ELSE <<>>]

\* `[]`: a reference to a fresh array (the least one nothing refers to, once
\* this.results is overwritten)
NewArray ==
    CHOOSE a \in ArrIds :
        /\ a \notin Referenced(NoRef, returned)
        /\ \A b \in ArrIds : b \notin Referenced(NoRef, returned) => a <= b

\* the array an invocation returned
ReturnedList(r) == heap[CHOOSE a \in returned[r] : TRUE]

\* updateProgress(message, percent): percent is num / den * 100
Event(text, platform, k, n, percent) ==
    [text |-> text, platform |-> platform, k |-> k, n |-> n,
     num |-> percent.num, den |-> percent.den]

\* an initial percent computed from the counters: 0 of 0 platforms
InitialPercentComputed == [num |-> 0, den |-> 0]

Literal0 == [num |-> 0, den |-> 1]
Literal100 == [num |-> 1, den |-> 1]

\* a progress bar that shows what remains instead of what is done
ProgressRemaining(completed, total) == [num |-> total - completed, den |-> total]

\* a progress bar that counts the platform being searched as done
ProgressOfNext(completed, total) == [num |-> completed + 1, den |-> total]

\* (this.completedSearches / this.totalPlatforms) * 100
Progress(completed, total) == [num |-> completed, den |-> total]

Request(r, pos, platformKey, q, t) ==
    [run |-> r, pos |-> pos, platformKey |-> platformKey, query |-> q, type |-> t]

InFlightOf(r) == {m \in inflight : m.run = r}

\* the caller has kept no search to compare with
NoRun == <<>>

\* no validator has been called
NoCheck == <<>>

\* a statistic that counts every result that is not an error as found
StatsCountingAnswers ==
    [total |-> totalPlatforms,
     found |-> Cardinality({i \in DOMAIN heap[results] :
                                heap[results][i].status # "error"}),
     completed |-> completedSearches]

\* getSearchStats()
getSearchStats ==
    [total |-> totalPlatforms,
     found |-> Cardinality({i \in DOMAIN heap[results] :
                                heap[results][i].status = "found"}),
     completed |-> completedSearches]

TypeOK ==
    /\ results \in ArrIds
    /\ pc \in [Runs -> {"idle", "fetch", "delay", "returned", "threw"}]
    /\ \A r \in Runs : idx[r] \in 0..Len(selectedPlatforms[r])
    /\ \A r \in Runs : returned[r] \subseteq ArrIds /\ Cardinality(returned[r]) <= 1
    /\ \A r \in Runs : pc[r] = "returned" <=> returned[r] # NoRef

\* the engine as constructed, with no search started
Constructed ==
    /\ heap = [a \in ArrIds |-> <<>>]
    /\ results = 1
    /\ searchProgress = 0
    /\ totalPlatforms = 0
    /\ completedSearches = 0
    /\ pc = [r \in Runs |-> "idle"]
    /\ query = [r \in Runs |-> <<>>]
    /\ type = [r \in Runs |-> ""]
    /\ selectedPlatforms = [r \in Runs |-> <<>>]
    /\ idx = [r \in Runs |-> 0]
    /\ returned = [r \in Runs |-> NoRef]
    /\ thrown = [r \in Runs |-> <<>>]
    /\ inflight = {}
    /\ events = [r \in Runs |-> <<>>]
    /\ requests = [r \in Runs |-> <<>>]
    /\ outcome = [r \in Runs |-> <<>>]
    /\ waits = [r \in Runs |-> 0]
    /\ previous = NoRun

Init ==
    /\ Constructed
    /\ validated = NoCheck

\* a validator is about to be called with a text and a type
InitValidate ==
    /\ Constructed
    /\ validated \in {[query |-> q, type |-> t, called |-> {},
                        searchInput |-> <<>>, input |-> FALSE] :
                            q \in ValidatorTexts, t \in ValidatorTypes}

\* ----------------------------------------------------------------- actions

\* a loop that gives up after the first failed platform
HasNextUnlessFailed(ps, pos, list) ==
    pos < Len(ps) /\ (list = <<>> \/ list[Len(list)].status # "error")

\* the for...of loop has another platform after position pos of ps
HasNext(ps, pos, list) == pos < Len(ps)

\* a loop that tries a platform again after it failed
RetryFailedPosition(pos, list) ==
    IF list # <<>> /\ list[Len(list)].status = "error" THEN pos ELSE pos + 1

\* the position the for...of loop takes up after position pos
NextPosition(pos, list) == pos + 1

\* an await that never hands control back to performSearch
NeverResumes(r) == FALSE

\* a call of searchPlatform that is not awaited
NotAwaited(r) == TRUE

\* `await this.searchPlatform(...)`: performSearch resumes once the call has settled
AwaitSearchPlatform(r) == InFlightOf(r) = {}

\* a loop that goes from one platform to the next without a pause
NeverDelays(ps, pos) == FALSE

\* `await this.delay(1000)` is the last statement of the try block of every
\* iteration: the delay is taken after the platform at position pos of ps
DelayAfter(ps, pos) == TRUE

\* a searchPlatform that passes its failure on to its caller after recording it
SearchPlatformRethrows == TRUE

\* searchPlatform catches whatever its body throws: its promise never rejects
SearchPlatformRejects == FALSE

\* an array that takes new items at its front
ArrayUnshift(list, items) == items \o list

\* this.results.push(...): the array with the items after those it has
ArrayPush(list, items) == list \o items

\* a catch block that logs the error and pushes nothing
SearchPlatformDropsErrors(platformKey, q, t, o) ==
    IF SearchPlatformResult(platformKey, q, t, o).status = "error"
    THEN <<>>
    ELSE <<SearchPlatformResult(platformKey, q, t, o)>>

\* what searchPlatform pushes onto this.results for a request that ended with o
SearchPlatformPushes(platformKey, q, t, o) ==
    <<SearchPlatformResult(platformKey, q, t, o)>>

\* The head of the for...of loop of performSearch, reached with the loop at
\* position pos of ps: either the next iteration up to its fetch, or the code
\* after the loop up to the return.
LoopHead(r, ps, q, t, pos, h, res, comp, total, evs) ==
    IF HasNext(ps, pos, h[res])
    THEN LET next == NextPosition(pos, h[res])
         IN  /\ idx' = [idx EXCEPT ![r] = next]
             /\ events' = [events EXCEPT ![r] =
                    Append(evs, Event("Searching", ps[next], comp, total,
                                      Progress(comp, total)))]
             /\ inflight' = inflight \cup {Request(r, next, ps[next], q, t)}
             /\ requests' = [requests EXCEPT ![r] =
                    [i \in 1..Len(ps) |->
                        IF i = next THEN IF i \in DOMAIN @ THEN @[i] + 1 ELSE 1
                        ELSE IF i \in DOMAIN @ THEN @[i] ELSE 0]]
             /\ pc' = [pc EXCEPT ![r] = "fetch"]
             /\ returned' = returned
             /\ heap' = h
    ELSE /\ idx' = [idx EXCEPT ![r] = pos]
         /\ events' = [events EXCEPT ![r] =
                Append(evs, Event("Search completed!", "", comp, total, Literal100))]
         /\ inflight' = inflight
         /\ requests' = [requests EXCEPT ![r] =
                [i \in 1..Len(ps) |-> IF i \in DOMAIN @ THEN @[i] ELSE 0]]
         /\ pc' = [pc EXCEPT ![r] = "returned"]
         /\ returned' = [returned EXCEPT ![r] = {res}]
         /\ heap' = h

\* a search that adds to the results of the search before
ResultsKept(old) == old

\* `this.results = []`: what the results array of a new search holds
ResultsAtStart(old) == <<>>

\* performSearch(q, t, ps), from the call to its first await (or to its throw or
\* return)
PerformSearch(r, q, t, ps) ==
    /\ pc[r] = "idle"
    /\ query' = [query EXCEPT ![r] = q]
    /\ type' = [type EXCEPT ![r] = t]
    /\ selectedPlatforms' = [selectedPlatforms EXCEPT ![r] = ps]
    /\ results' = NewArray
    /\ searchProgress' = 0
    /\ completedSearches' = 0
    /\ totalPlatforms' = Len(ps)
    /\ outcome' = [outcome EXCEPT ![r] = <<>>]
    /\ waits' = [waits EXCEPT ![r] = 0]
    /\ UNCHANGED <<previous, validated>>
    /\ LET h == Collected([heap EXCEPT ![NewArray] = ResultsAtStart(heap[results])],
                          {NewArray}, returned)
       IN  IF BasicInputValidation(q, t) # Accepted
           THEN /\ thrown' = [thrown EXCEPT ![r] = BasicInputValidation(q, t)]
                /\ pc' = [pc EXCEPT ![r] = "threw"]
                /\ heap' = h
                /\ UNCHANGED <<idx, events, inflight, requests, returned>>
           ELSE /\ thrown' = thrown
                /\ LoopHead(r, ps, q, t, 0, h, NewArray, 0, Len(ps),
                            <<Event("Initializing search...", "", 0, Len(ps), Literal0)>>)

\* the fetch of one request settles and searchPlatform runs to its return:
\* it pushes the formatted result, or the errorResult of its catch block
FetchSettles(r, m, o) ==
    /\ m \in InFlightOf(r)
    /\ o \in Outcomes(m.platformKey)
    /\ inflight' = inflight \ {m}
    /\ heap' = [heap EXCEPT ![results] =
                    ArrayPush(@, SearchPlatformPushes(m.platformKey, m.query, m.type, o))]
    /\ outcome' = [outcome EXCEPT ![r] = Append(@, o)]
    /\ UNCHANGED <<results, searchProgress, totalPlatforms, completedSearches, pc,
                   query, type, selectedPlatforms, idx, returned, thrown, events,
                   requests, waits, previous, validated>>

\* performSearch resumes after `await this.searchPlatform(...)`: it counts the
\* search, reports it and starts the delay; had searchPlatform rejected, its
\* catch block would push an error result and go on with the loop
SearchPlatformReturns(r) ==
    /\ pc[r] = "fetch"
    /\ AwaitSearchPlatform(r)
    /\ IF SearchPlatformRejects
       THEN /\ LoopHead(r, selectedPlatforms[r], query[r], type[r], idx[r],
                        [heap EXCEPT ![results] =
                            Append(@, ErrorResult(selectedPlatforms[r][idx[r]],
                                                  <<"rejected">>))],
                        results, completedSearches, totalPlatforms, events[r])
            /\ UNCHANGED completedSearches
       ELSE /\ completedSearches' = completedSearches + 1
            /\ LET searched == Append(events[r],
                                    Event("Searched", "", completedSearches + 1,
                                          totalPlatforms,
                                          Progress(completedSearches + 1, totalPlatforms)))
               IN  IF DelayAfter(selectedPlatforms[r], idx[r])
                   THEN /\ events' = [events EXCEPT ![r] = searched]
                        /\ pc' = [pc EXCEPT ![r] = "delay"]
                        /\ UNCHANGED <<heap, idx, inflight, requests, returned>>
                   ELSE LoopHead(r, selectedPlatforms[r], query[r], type[r], idx[r],
                                 heap, results, completedSearches + 1, totalPlatforms,
                                 searched)
    /\ UNCHANGED <<results, searchProgress, totalPlatforms, query, type,
                   selectedPlatforms, thrown, outcome, waits, previous, validated>>

\* the timer of `await this.delay(1000)` fires: the loop goes on, or performSearch
\* reports completion and returns this.results
DelayElapses(r) ==
    /\ pc[r] = "delay"
    /\ LoopHead(r, selectedPlatforms[r], query[r], type[r], idx[r], heap, results,
                completedSearches, totalPlatforms, events[r])
    /\ waits' = [waits EXCEPT ![r] = @ + 1]
    /\ UNCHANGED <<results, searchProgress, totalPlatforms, completedSearches, query,
                   type, selectedPlatforms, thrown, outcome, previous, validated>>

\* the caller takes the array returned, or the Error thrown, and lets go of it
Collect(r) ==
    /\ pc[r] \in {"returned", "threw"}
    /\ pc' = [pc EXCEPT ![r] = "idle"]
    /\ query' = [query EXCEPT ![r] = <<>>]
    /\ type' = [type EXCEPT ![r] = ""]
    /\ selectedPlatforms' = [selectedPlatforms EXCEPT ![r] = <<>>]
    /\ idx' = [idx EXCEPT ![r] = 0]
    /\ returned' = [returned EXCEPT ![r] = NoRef]
    /\ thrown' = [thrown EXCEPT ![r] = <<>>]
    /\ events' = [events EXCEPT ![r] = <<>>]
    /\ requests' = [requests EXCEPT ![r] = <<>>]
    /\ outcome' = [outcome EXCEPT ![r] = <<>>]
    /\ waits' = [waits EXCEPT ![r] = 0]
    /\ heap' = Collected(heap, {results}, [returned EXCEPT ![r] = NoRef])
    /\ UNCHANGED <<results, searchProgress, totalPlatforms, completedSearches, inflight,
                   previous, validated>>

\* the engine as its constructor left it
AsConstructed ==
    /\ heap[results] = <<>>
    /\ totalPlatforms = 0
    /\ completedSearches = 0

\* the invocation slot of a caller that awaits each search before the next
Caller == "A"

\* the first search on an engine, by a caller that awaits it
FirstCall ==
    /\ AsConstructed
    /\ \A r \in Runs : pc[r] = "idle"
    /\ \E input \in SearchInputs, ps \in PlatformLists :
            PerformSearch(Caller, input[1], input[2], ps)

\* a later search on the same engine, by a caller that awaited the one before
LaterCall ==
    /\ \A r \in Runs : pc[r] = "idle"
    /\ \E input \in LaterInputs, ps \in LaterPlatformLists :
            PerformSearch(Caller, input[1], input[2], ps)

\* callers that start a search while another may still be suspended
OverlappingCall(r) ==
    \E input \in LaterInputs, ps \in LaterPlatformLists :
        PerformSearch(r, input[1], input[2], ps)

\* the caller takes the array returned and keeps what it needs to compare it
\* with the array of the next search: the platform and status of each entry
Keep(r) ==
    /\ pc[r] = "returned"
    /\ previous' = [query |-> query[r], type |-> type[r],
                    platforms |-> selectedPlatforms[r], outcome |-> outcome[r],
                    list |-> [i \in DOMAIN ReturnedList(r) |->
                                [platform |-> ReturnedList(r)[i].platform,
                                 status |-> ReturnedList(r)[i].status]]]
    /\ pc' = [pc EXCEPT ![r] = "idle"]
    /\ query' = [query EXCEPT ![r] = <<>>]
    /\ type' = [type EXCEPT ![r] = ""]
    /\ selectedPlatforms' = [selectedPlatforms EXCEPT ![r] = <<>>]
    /\ idx' = [idx EXCEPT ![r] = 0]
    /\ returned' = [returned EXCEPT ![r] = NoRef]
    /\ events' = [events EXCEPT ![r] = <<>>]
    /\ requests' = [requests EXCEPT ![r] = <<>>]
    /\ outcome' = [outcome EXCEPT ![r] = <<>>]
    /\ waits' = [waits EXCEPT ![r] = 0]
    /\ heap' = Collected(heap, {results}, [returned EXCEPT ![r] = NoRef])
    /\ UNCHANGED <<results, searchProgress, totalPlatforms, completedSearches, inflight,
                   thrown, validated>>

\* the caller takes the Error thrown and lets go of it
Discard(r) ==
    /\ pc[r] = "threw"
    /\ Collect(r)

\* the first of the two searches, on an engine as constructed
RunOnce ==
    /\ previous = NoRun
    /\ AsConstructed
    /\ \A r \in Runs : pc[r] = "idle"
    /\ \E input \in LaterInputs, ps \in RepeatPlatformLists :
            PerformSearch(Caller, input[1], input[2], ps)

\* the same search again, once the one before has returned
RunAgain ==
    /\ previous # NoRun
    /\ \A r \in Runs : pc[r] = "idle"
    /\ PerformSearch(Caller, previous.query, previous.type, previous.platforms)

\* adapters that are deterministic: a request of the second search ends as the
\* request for the same position of the first search did
SettleAsBefore(r) ==
    \E m \in inflight, o \in [net : NetOutcomes, vendor : VendorOutcomes] :
        /\ previous # NoRun => o = previous.outcome[m.pos]
        /\ FetchSettles(r, m, o)

Settle(r) ==
    \E m \in inflight, o \in [net : NetOutcomes, vendor : VendorOutcomes] :
        FetchSettles(r, m, o)

Next ==
    \/ FirstCall
    \/ LaterCall
    \/ \E r \in Runs :
        \/ Settle(r)
        \/ SearchPlatformReturns(r)
        \/ DelayElapses(r)
        \/ Collect(r)

\* one engine used by a caller that awaits each search
Spec == Init /\ [][Next]_vars

NextOverlap ==
    \E r \in Runs :
        \/ OverlappingCall(r)
        \/ Settle(r)
        \/ SearchPlatformReturns(r)
        \/ DelayElapses(r)
        \/ Collect(r)

\* one engine used by callers whose searches overlap
SpecOverlap == Init /\ [][NextOverlap]_vars

\* validateSearchInput(validated.query, validated.type) is called
ValidateSearchInput ==
    /\ validated # NoCheck
    /\ "validateSearchInput" \notin validated.called
    /\ validated' = [validated EXCEPT
            !.called = @ \cup {"validateSearchInput"},
            !.searchInput = validateSearchInput(validated.query, validated.type)]
    /\ UNCHANGED <<heap, results, searchProgress, totalPlatforms, completedSearches, pc,
                   query, type, selectedPlatforms, idx, returned, thrown, inflight,
                   events, requests, outcome, waits, previous>>

\* validateInput(validated.query, validated.type) is called
ValidateInput ==
    /\ validated # NoCheck
    /\ "validateInput" \notin validated.called
    /\ \E utils \in BOOLEAN :
        validated' = [validated EXCEPT
            !.called = @ \cup {"validateInput"},
            !.input = validateInput(validated.query, validated.type, utils)]
    /\ UNCHANGED <<heap, results, searchProgress, totalPlatforms, completedSearches, pc,
                   query, type, selectedPlatforms, idx, returned, thrown, inflight,
                   events, requests, outcome, waits, previous>>

NextValidate ==
    \/ ValidateSearchInput
    \/ ValidateInput

\* the validators of the engine applied to a text and a type
SpecValidate == InitValidate /\ [][NextValidate]_vars

NextRepeat ==
    \/ RunOnce
    \/ RunAgain
    \/ \E r \in Runs :
        \/ SettleAsBefore(r)
        \/ SearchPlatformReturns(r)
        \/ DelayElapses(r)
        \/ Keep(r)
        \/ Discard(r)

\* one engine used by a caller that runs each search twice in succession,
\* against adapters that are deterministic
SpecRepeat == Init /\ [][NextRepeat]_vars

\* every request is answered or fails in the end, every timer fires, and the
\* event loop resumes a function whose awaited promise has settled
Fairness ==
    \A r \in Runs :
        /\ WF_vars(SettleAsBefore(r))
        /\ WF_vars(SearchPlatformReturns(r))
        /\ WF_vars(DelayElapses(r))

\* SpecRepeat with requests that complete and timers that fire
SpecFair == Init /\ [][NextRepeat]_vars /\ Fairness

\* ------------------------------------------------------------- properties

Completed(r) == pc[r] = "returned"

Last(seq) == seq[Len(seq)]

\* a <= b for two percent values
PercentLeq(a, b) == a.den > 0 /\ b.den > 0 /\ a.num * b.den <= b.num * a.den

\* the platforms the server has an adapter for
RegisteredPlatforms ==
    {"google", "facebook", "twitter", "instagram", "hunter", "github", "reddit", "youtube"}

\* the platforms whose declared checkMethod is 'redirect'
RedirectPlatforms == {"google", "facebook", "instagram", "hunter", "github", "youtube"}

\* the adapter of platformKey failed on a request that ended with o: the request
\* or the response was lost, the rate limiter rejected it, the endpoint answered
\* with an error status, or the server-side adapter caught a failure
AdapterFailed(platformKey, q, t, o) ==
    \/ o.net # "delivered"
    \/ SearchEndpoint(platformKey, q, t, o.vendor).status # "200"
    \/ Truthy(SearchEndpoint(platformKey, q, t, o.vendor).body.error)

\* the number of entries of list whose status is found
RECURSIVE CountFound(_)
CountFound(list) ==
    IF list = <<>> THEN 0
    ELSE (IF Head(list).status = "found" THEN 1 ELSE 0) + CountFound(Tail(list))

\* an optional leading '+', then at least 10 characters, each a digit,
\* whitespace or '-'
PhoneShape(s) ==
    /\ \A k \in DOMAIN s :
            s[k] \in (Digits \cup Whitespace \cup {"-"}) \/ (k = 1 /\ s[k] = "+")
    /\ Cardinality({k \in DOMAIN s : s[k] # "+"}) >= 10

\* local@domain.tld: one '@', no whitespace, something before the '@', and a
\* '.' after it that has something on either side
EmailShape(s) ==
    /\ Cardinality({k \in DOMAIN s : s[k] = "@"}) = 1
    /\ \A k \in DOMAIN s : s[k] \notin Whitespace
    /\ LET at == CHOOSE k \in DOMAIN s : s[k] = "@"
       IN  /\ at > 1
           /\ \E dot \in (at + 2)..(Len(s) - 1) : s[dot] = "."

\* the cause of a fault as the caller can name it: the message of the failure
\* of the fetch or of the parse, or the HTTP status of the answer
FailureCauses(platformKey, q, t, o) ==
    CASE o.net = "netfail" -> {"Failed to fetch"}
      [] o.net = "limited" -> {"429"}
      [] o.net = "badjson" /\ SearchEndpoint(platformKey, q, t, o.vendor).status = "200" ->
            {"Unexpected token < in JSON at position 0"}
      [] OTHER -> {SearchEndpoint(platformKey, q, t, o.vendor).status}

\* the request for platformKey that ended with o raised (the fetch failed, the
\* body could not be parsed) or was answered with a status that is not 2xx
RequestFaulted(platformKey, q, t, o) ==
    \/ o.net # "delivered"
    \/ SearchEndpoint(platformKey, q, t, o.vendor).status # "200"

\* the Retry-After values a 429 of the server's rate limiter can carry
RetryAfterValues == {Null, <<"900">>}

\* the j-th progress event of a run over the platforms ps, as the order
\* initial, (searching, searched) per platform, final gives it
ExpectedEvent(ps, j) ==
    LET n == Len(ps)
        k == j \div 2
    IN  CASE j = 1 ->
                [text |-> "Initializing search...", platform |-> "", k |-> 0, n |-> n,
                 num |-> 0, den |-> 1]
          [] j = 2 * n + 2 ->
                [text |-> "Search completed!", platform |-> "", k |-> n, n |-> n,
                 num |-> 1, den |-> 1]
          [] j > 1 /\ j < 2 * n + 2 /\ j % 2 = 0 ->
                [text |-> "Searching", platform |-> ps[k], k |-> k - 1, n |-> n,
                 num |-> k - 1, den |-> n]
          [] OTHER ->
                [text |-> "Searched", platform |-> "", k |-> k, n |-> n,
                 num |-> k, den |-> n]

\* the event e is the event x: same text, same platform named, same counts in
\* the text and the same percent
SameEvent(e, x) ==
    /\ e.text = x.text
    /\ e.platform = x.platform
    /\ e.text = "Searched" => (e.k = x.k /\ e.n = x.n)
    /\ e.den > 0
    /\ e.num * x.den = x.num * e.den

\* the list a is the beginning of the list b, entry by entry
IsPrefix(a, b) == Len(a) <= Len(b) /\ \A i \in DOMAIN a : b[i] = a[i]

Mentions(description, token) == \E k \in DOMAIN description : description[k] = token

\* C1: a completed run over a non-empty platform list returns exactly one
\* result per requested platform and ends with completedSearches equal to the
\* number of platforms, whatever the platforms' outcomes.
C1_OneResultPerPlatform ==
    \A r \in Runs :
        Completed(r) /\ selectedPlatforms[r] # <<>> =>
            /\ Len(ReturnedList(r)) = Len(selectedPlatforms[r])
            /\ completedSearches = Len(selectedPlatforms[r])

C1_Witness ==
    \E r \in Runs :
        /\ Completed(r)
        /\ Len(selectedPlatforms[r]) = 2
        /\ ReturnedList(r)[1].status = "error"
        /\ ReturnedList(r)[2].status = "found"

\* C2: after a completed run, results[i].platform equals platforms[i] at every
\* index, also for the platforms with a formatter of their own.
C2_PlatformFieldIsRequestedId ==
    \A r \in Runs :
        Completed(r) =>
            \A i \in DOMAIN ReturnedList(r) :
                /\ i \in DOMAIN selectedPlatforms[r]
                /\ ReturnedList(r)[i].platform = selectedPlatforms[r][i]

\* C3: when the request of one platform fails, every platform listed after it
\* is still requested and has its entry in the results returned, with the
\* status its own outcome gives it.
C3_FailureIsIsolated ==
    \A r \in Runs :
        Completed(r) =>
            \A i, j \in DOMAIN selectedPlatforms[r] :
                (/\ i < j
                 /\ i \in DOMAIN outcome[r]
                 /\ AdapterFailed(selectedPlatforms[r][i], query[r], type[r], outcome[r][i]))
                =>
                    /\ requests[r][j] >= 1
                    /\ j \in DOMAIN outcome[r]
                    /\ j \in DOMAIN ReturnedList(r)
                    /\ ReturnedList(r)[j].status =
                         SearchPlatformResult(selectedPlatforms[r][j], query[r], type[r],
                                              outcome[r][j]).status

C3_Witness ==
    \E r \in Runs :
        /\ Completed(r)
        /\ Len(selectedPlatforms[r]) = 2
        /\ outcome[r][1].net = "netfail"
        /\ ReturnedList(r)[1].status = "error"
        /\ ReturnedList(r)[2].status = "found"

\* C4: within a run that passed validation, the request for each position of
\* the platform list is issued exactly once: never more than once at any time,
\* and once for every position when the run completes.
C4_EachPlatformRequestedOnce ==
    \A r \in Runs :
        /\ \A i \in DOMAIN requests[r] : requests[r][i] <= 1
        /\ Completed(r) =>
            /\ DOMAIN requests[r] = DOMAIN selectedPlatforms[r]
            /\ \A i \in DOMAIN requests[r] : requests[r][i] = 1

C4_Witness ==
    \E r \in Runs :
        /\ Completed(r)
        /\ Len(selectedPlatforms[r]) = 2
        /\ ReturnedList(r)[1].status = "error"
        /\ Mentions(ReturnedList(r)[1].description, "429")
        /\ requests[r] = <<1, 1>>

\* C5: a query that fails validation for its declared type makes the run abort
\* before any adapter is invoked: no request is issued for it and no result is
\* produced.
C5_InvalidQueryIssuesNoRequest ==
    \A r \in Runs :
        (\/ BasicInputValidation(query[r], type[r]) # Accepted
         \/ validateSearchInput(query[r], type[r]) # Accepted)
        =>
            /\ \A i \in DOMAIN requests[r] : requests[r][i] = 0
            /\ InFlightOf(r) = {}
            /\ outcome[r] = <<>>

\* C6: a platform identifier with no registered adapter gets, when the server
\* has answered, one result with status error whose description says that the
\* platform is not supported, and the run goes on.
C6_UnknownPlatformNotSupported ==
    \A r \in Runs :
        Completed(r) =>
            \A i \in DOMAIN selectedPlatforms[r] :
                (/\ selectedPlatforms[r][i] \notin RegisteredPlatforms
                 /\ i \in DOMAIN outcome[r]
                 /\ outcome[r][i].net = "delivered")
                =>
                    /\ i \in DOMAIN ReturnedList(r)
                    /\ ReturnedList(r)[i].status = "error"
                    /\ Mentions(ReturnedList(r)[i].description, " not supported")

\* C7: whenever the adapter of a platform fails, the result recorded for that
\* platform has status error, never found or not-found.
C7_AdapterFailureIsError ==
    \A r \in Runs :
        Completed(r) =>
            \A i \in DOMAIN selectedPlatforms[r] :
                (/\ i \in DOMAIN outcome[r]
                 /\ AdapterFailed(selectedPlatforms[r][i], query[r], type[r], outcome[r][i]))
                =>
                    /\ i \in DOMAIN ReturnedList(r)
                    /\ ReturnedList(r)[i].status = "error"

\* C8: when two invocations overlap, each still returns exactly one entry per
\* platform of its own list, in its own order, each the result of its own
\* request, and none produced by the other invocation.
C8_OverlappingRunsOwnTheirResults ==
    \A r \in Runs :
        Completed(r) =>
            /\ Len(ReturnedList(r)) = Len(selectedPlatforms[r])
            /\ \A i \in DOMAIN ReturnedList(r) :
                /\ i \in DOMAIN outcome[r]
                /\ ReturnedList(r)[i] =
                     SearchPlatformResult(selectedPlatforms[r][i], query[r], type[r],
                                          outcome[r][i])

\* C9: within one run at most one request is in flight at any time, and the
\* request for a position is in flight only when the requests of all earlier
\* positions have settled and their results are in this.results.
C9_OneRequestInFlight ==
    \A r \in Runs :
        /\ Cardinality(InFlightOf(r)) <= 1
        /\ \A m \in InFlightOf(r) :
            /\ Len(outcome[r]) = m.pos - 1
            /\ Len(heap[results]) = m.pos - 1

C9_Witness ==
    \E r \in Runs :
        \E m \in InFlightOf(r) :
            /\ m.pos = 2
            /\ Len(heap[results]) = 1

\* C10: the percent values of the progress events of one run never decrease,
\* and the last event of a completed run reports 100.
C10_ProgressMonotonic ==
    \A r \in Runs :
        /\ \A i \in DOMAIN events[r] :
            i > 1 => PercentLeq(events[r][i - 1], events[r][i])
        /\ Completed(r) =>
            /\ events[r] # <<>>
            /\ Last(events[r]).num = Last(events[r]).den

C10_Witness ==
    \E r \in Runs :
        /\ Completed(r)
        /\ Len(selectedPlatforms[r]) = 2
        /\ Len(events[r]) = 6
        /\ events[r][4].num = 1 /\ events[r][4].den = 2

\* C11: a complete delay lies between the completion of each searchPlatform
\* call and the start of the next one, and none before the first: the request
\* at position p is issued after exactly p - 1 delays have elapsed, and a delay
\* runs only while no request of the run is in flight and the platform at the
\* loop's position has its result.
C11_DelayBetweenAdapterCalls ==
    \A r \in Runs :
        /\ \A m \in InFlightOf(r) : waits[r] = m.pos - 1
        /\ pc[r] = "delay" =>
            /\ InFlightOf(r) = {}
            /\ Len(outcome[r]) = idx[r]
            /\ waits[r] = idx[r] - 1

C11_Witness ==
    \E r \in Runs :
        /\ \A i \in DOMAIN selectedPlatforms[r] :
                selectedPlatforms[r][i] \in RegisteredPlatforms
        /\ \E m \in InFlightOf(r) :
            /\ m.pos = 2
            /\ waits[r] = 1

\* C12: no delay follows the last platform of the list: a completed run over
\* n >= 1 platforms has sat through exactly n - 1 delays.
C12_NoDelayAfterLastPlatform ==
    \A r \in Runs :
        Completed(r) /\ Len(selectedPlatforms[r]) >= 1 =>
            waits[r] = Len(selectedPlatforms[r]) - 1

\* C13: for every platform whose checkMethod is 'redirect' and whose request
\* succeeds, the result recorded has status found and a url that is not null,
\* whatever the query and its type.
C13_RedirectPlatformIsFound ==
    \A r \in Runs :
        Completed(r) =>
            \A i \in DOMAIN selectedPlatforms[r] :
                (/\ selectedPlatforms[r][i] \in RedirectPlatforms
                 /\ i \in DOMAIN outcome[r]
                 /\ ~AdapterFailed(selectedPlatforms[r][i], query[r], type[r], outcome[r][i]))
                =>
                    /\ i \in DOMAIN ReturnedList(r)
                    /\ ReturnedList(r)[i].status = "found"
                    /\ ReturnedList(r)[i].url # Null

\* C14: when the structured response of an adapter is received, the result
\* recorded has status found exactly when the response's found is true and
\* not-found exactly when it is false, and its url and description are those
\* of the response, for the default formatter and for the formatters of
\* twitter and github alike.
C14_ResultMirrorsResponse ==
    \A r \in Runs :
        Completed(r) =>
            \A i \in DOMAIN selectedPlatforms[r] :
                (/\ i \in DOMAIN outcome[r]
                 /\ outcome[r][i].net = "delivered"
                 /\ SearchEndpoint(selectedPlatforms[r][i], query[r], type[r],
                                   outcome[r][i].vendor).status = "200")
                =>
                    LET response == SearchEndpoint(selectedPlatforms[r][i], query[r],
                                                   type[r], outcome[r][i].vendor).body
                    IN  /\ i \in DOMAIN ReturnedList(r)
                        /\ ReturnedList(r)[i].status = "found" <=> response.found = TRUE
                        /\ ReturnedList(r)[i].status = "not-found" <=> response.found = FALSE
                        /\ ReturnedList(r)[i].url = response.url
                        /\ ReturnedList(r)[i].description = response.description

\* C15: after a completed run getSearchStats returns total equal to the number
\* of platforms requested, found equal to the number of results returned whose
\* status is found, and completed equal to the count of platforms completed;
\* for a run over three platforms with one result found, one not-found and one
\* error it returns {total: 3, found: 1, completed: 3}.
C15_StatsOfCompletedRun ==
    \A r \in Runs :
        Completed(r) =>
            /\ getSearchStats.total = Len(selectedPlatforms[r])
            /\ getSearchStats.found = CountFound(ReturnedList(r))
            /\ getSearchStats.completed = completedSearches
            /\ getSearchStats.completed = Len(outcome[r])
            /\ (/\ Len(ReturnedList(r)) = 3
                /\ \E i, j, k \in 1..3 :
                    /\ ReturnedList(r)[i].status = "found"
                    /\ ReturnedList(r)[j].status = "not-found"
                    /\ ReturnedList(r)[k].status = "error")
               => getSearchStats = [total |-> 3, found |-> 1, completed |-> 3]

C15_Witness ==
    \E r \in Runs :
        /\ Completed(r)
        /\ selectedPlatforms[r] = MixedList
        /\ ReturnedList(r)[1].status = "not-found"
        /\ ReturnedList(r)[2].status = "found"
        /\ ReturnedList(r)[3].status = "error"
        /\ getSearchStats = [total |-> 3, found |-> 1, completed |-> 3]

\* C16: two runs in succession with the same query, type and platform list,
\* against adapters that answer the second run as they answered the first,
\* return lists equal in length, platform order and status at each position,
\* and the counters of the second run are those of a first run.
C16_SecondRunEqualsFirst ==
    \A r \in Runs :
        (/\ Completed(r)
         /\ previous # NoRun
         /\ query[r] = previous.query
         /\ type[r] = previous.type
         /\ selectedPlatforms[r] = previous.platforms
         /\ outcome[r] = previous.outcome)
        =>
            /\ Len(ReturnedList(r)) = Len(previous.list)
            /\ \A i \in DOMAIN ReturnedList(r) :
                /\ ReturnedList(r)[i].platform = previous.list[i].platform
                /\ ReturnedList(r)[i].status = previous.list[i].status
            /\ totalPlatforms = Len(previous.platforms)
            /\ completedSearches = Len(previous.platforms)

C16_Witness ==
    \E r \in Runs :
        /\ Completed(r)
        /\ previous # NoRun
        /\ selectedPlatforms[r] = previous.platforms
        /\ outcome[r] = previous.outcome
        /\ Len(previous.list) = 2
        /\ previous.list[1].status = "found"
        /\ previous.list[2].status = "error"
        /\ Len(ReturnedList(r)) = 2

C18_UnsupportedTypeRejected ==
    (validated # NoCheck /\ validated.type \notin SearchTypes) =>
        /\ "validateSearchInput" \in validated.called => validated.searchInput # Accepted
        /\ "validateInput" \in validated.called => validated.input = FALSE

\* C19: validateSearchInput accepts a username exactly when its length is at
\* least 3 and a name exactly when its length is at least 2, and rejects the
\* shorter ones with the too-short error of the type; validateInput accepts a
\* name exactly when its length is at least 2.
C19_LengthThresholds ==
    validated # NoCheck =>
        /\ ("validateSearchInput" \in validated.called /\ validated.type = "username") =>
                validated.searchInput =
                    IF Len(validated.query) >= 3 THEN Accepted
                    ELSE <<"Username must be at least 3 characters long">>
        /\ ("validateSearchInput" \in validated.called /\ validated.type = "name") =>
                validated.searchInput =
                    IF Len(validated.query) >= 2 THEN Accepted
                    ELSE <<"Name must be at least 2 characters long">>
        /\ ("validateInput" \in validated.called /\ validated.type = "name") =>
                validated.input = (Len(validated.query) >= 2)

C19_Witness ==
    /\ validated # NoCheck
    /\ validated.called = {"validateSearchInput", "validateInput"}
    /\ validated.type = "username"
    /\ Len(validated.query) = 2
    /\ validated.searchInput = <<"Username must be at least 3 characters long">>

\* C20: validateSearchInput accepts a phone exactly when it is an optional
\* leading '+' followed by at least 10 characters that are digits, whitespace
\* or '-', and an email exactly when it has the shape local@domain.tld; every
\* other text is rejected with the invalid-format error of the type.
C20_PhoneAndEmailFormat ==
    (validated # NoCheck /\ "validateSearchInput" \in validated.called) =>
        /\ validated.type = "phone" =>
                validated.searchInput =
                    IF PhoneShape(validated.query) THEN Accepted
                    ELSE <<"Invalid phone number format">>
        /\ validated.type = "email" =>
                validated.searchInput =
                    IF EmailShape(validated.query) THEN Accepted
                    ELSE <<"Invalid email format">>

C20_Witness ==
    /\ validated # NoCheck
    /\ "validateSearchInput" \in validated.called
    /\ validated.type = "phone"
    /\ Len(validated.query) = 11
    /\ validated.query[1] = "+"
    /\ validated.query[7] = "-"
    /\ validated.searchInput = Accepted

\* C21: every result with status error in the list a run returns has a
\* description that carries the cause of the failure (the message of the fault
\* or the HTTP status), a null url and no content.
C21_ErrorResultCarriesCause ==
    \A r \in Runs :
        Completed(r) =>
            \A i \in DOMAIN ReturnedList(r) :
                ReturnedList(r)[i].status = "error" =>
                    /\ ReturnedList(r)[i].url = Null
                    /\ ReturnedList(r)[i].content \in {Null, Undefined}
                    /\ i \in DOMAIN outcome[r]
                    /\ \E cause \in FailureCauses(selectedPlatforms[r][i], query[r], type[r],
                                                  outcome[r][i]) :
                            Mentions(ReturnedList(r)[i].description, cause)

C21_Witness ==
    \E r \in Runs :
        /\ Completed(r)
        /\ Len(ReturnedList(r)) = 2
        /\ ReturnedList(r)[1].status = "error"
        /\ Mentions(ReturnedList(r)[1].description, "Failed to fetch")
        /\ ReturnedList(r)[2].status = "error"
        /\ Mentions(ReturnedList(r)[2].description, "500")

\* C22: when the request of a platform is answered with 429, the result
\* recorded for it has status error, its description holds the retry-after
\* hint (the Retry-After value, or 60), and the request is issued once.
C22_RateLimitHintInDescription ==
    \A r \in Runs :
        Completed(r) =>
            \A i \in DOMAIN selectedPlatforms[r] :
                (i \in DOMAIN outcome[r] /\ outcome[r][i].net = "limited") =>
                    /\ i \in DOMAIN ReturnedList(r)
                    /\ ReturnedList(r)[i].status = "error"
                    /\ requests[r][i] = 1
                    /\ \E retryAfter \in RetryAfterValues :
                            ReturnedList(r)[i].description =
                                <<"Error: ">> \o handleRateLimit("429", retryAfter)

\* C23: the progress events of a run over n platforms come in this order: the
\* initial event with 0; for the k-th platform "Searching <platform>" with
\* (k-1)/n, emitted before its request is issued, then, once its result is in
\* the list, "Searched k/n platforms" with k/n; and last the final event with
\* 100. No event of a later platform comes before an event of an earlier one.
C23_ProgressEventOrder ==
    \A r \in Runs :
        LET n == Len(selectedPlatforms[r])
        IN  /\ Len(events[r]) <= 2 * n + 2
            /\ \A j \in DOMAIN events[r] :
                    SameEvent(events[r][j], ExpectedEvent(selectedPlatforms[r], j))
            /\ Completed(r) => Len(events[r]) = 2 * n + 2
            /\ \A m \in InFlightOf(r) : Len(events[r]) = 2 * m.pos
            /\ \A k \in 1..n :
                    Len(events[r]) >= 2 * k + 1 =>
                        (Len(heap[results]) >= k /\ Len(outcome[r]) >= k)

C23_Witness ==
    \E r \in Runs :
        /\ Completed(r)
        /\ Len(selectedPlatforms[r]) = 2
        /\ selectedPlatforms[r][1] # selectedPlatforms[r][2]
        /\ Len(events[r]) = 6
        /\ events[r][4].text = "Searching"
        /\ events[r][4].platform = selectedPlatforms[r][2]
        /\ events[r][5].text = "Searched"

\* C24: after a platform that has no registered adapter the run goes on to the
\* next platform without a delay: a delay is taken only after a registered
\* platform, and the delays of a run never outnumber its registered platforms.
C24_NoDelayAfterUnknownPlatform ==
    \A r \in Runs :
        /\ pc[r] = "delay" => selectedPlatforms[r][idx[r]] \in RegisteredPlatforms
        /\ waits[r] <= Cardinality({i \in DOMAIN selectedPlatforms[r] :
                                        selectedPlatforms[r][i] \in RegisteredPlatforms})

\* C25: whenever the request of a platform raises or is answered with a status
\* that is not 2xx, searchPlatform does not raise to performSearch: the run
\* never throws once a request is out, exactly one result per settled request
\* is in the list, and the result of the faulted request has status error, the
\* platform requested and a description with the message of the fault (the
\* HTTP status for an answer that is not 2xx).
C25_FaultBecomesOneErrorResult ==
    \A r \in Runs :
        /\ pc[r] = "threw" => \A i \in DOMAIN requests[r] : requests[r][i] = 0
        /\ pc[r] \in {"fetch", "delay", "returned"} =>
            /\ Len(heap[results]) = Len(outcome[r])
            /\ \A i \in DOMAIN outcome[r] :
                RequestFaulted(selectedPlatforms[r][i], query[r], type[r], outcome[r][i]) =>
                    /\ heap[results][i].status = "error"
                    /\ heap[results][i].platform = selectedPlatforms[r][i]
                    /\ \E cause \in FailureCauses(selectedPlatforms[r][i], query[r],
                                                  type[r], outcome[r][i]) :
                            Mentions(heap[results][i].description, cause)

C25_Witness ==
    \E r \in Runs :
        /\ Completed(r)
        /\ Len(outcome[r]) = 2
        /\ outcome[r][1].net = "badjson"
        /\ SearchEndpoint(selectedPlatforms[r][1], query[r], type[r],
                          outcome[r][1].vendor).status = "200"
        /\ outcome[r][2].net = "limited"
        /\ Len(ReturnedList(r)) = 2
        /\ ReturnedList(r)[1].status = "error"
        /\ ReturnedList(r)[2].status = "error"

\* C26: during one run the result list only grows at its end: every step of
\* the run leaves the results already in the list unchanged and at their
\* index, so the list before the step is a prefix of the list after it.
C26_ResultsOnlyGrow ==
    [][\A r \in Runs :
            (pc[r] \in {"fetch", "delay"} /\ pc'[r] \in {"fetch", "delay", "returned"}) =>
                /\ IsPrefix(heap[results], heap'[results'])
                /\ Len(heap'[results']) <= Len(heap[results]) + 1]_vars

C26_Witness ==
    \E r \in Runs :
        /\ pc[r] = "delay"
        /\ idx[r] = 2
        /\ Len(heap[results]) = 2
        /\ heap[results][1].status = "found"
        /\ heap[results][2].status = "error"

\* C27: if every request completes in the end and every delay elapses, a run
\* that passed validation reports completion and returns; and performSearch
\* has no timeout of its own: while the request of a platform stays in flight
\* the run stays where it is, with no event emitted and no later platform
\* requested.
C27_RunReturnsUnlessRequestHangs ==
    /\ \A r \in Runs :
        (pc[r] \in {"fetch", "delay"}) ~>
            (Completed(r) /\ events[r] # <<>> /\ Last(events[r]).text = "Search completed!")
    /\ [][\A r \in Runs : \A m \in InFlightOf(r) :
            m \in inflight' =>
                /\ pc'[r] = pc[r]
                /\ idx'[r] = idx[r]
                /\ events'[r] = events[r]
                /\ requests'[r] = requests[r]
                /\ InFlightOf(r)' = InFlightOf(r)]_vars

C27_Witness ==
    \E r \in Runs :
        /\ Completed(r)
        /\ Len(selectedPlatforms[r]) = 2
        /\ waits[r] = 2
        /\ Last(events[r]).text = "Search completed!"
        /\ outcome[r][1].net = "netfail"

\* C28: a call that validation rejects leaves what the engine reports as it
\* was: getSearchStats and the stored result list are after the rejected call
\* what they were before it.
C28_RejectedRunLeavesEngineUnchanged ==
    [][\A r \in Runs :
            (pc[r] = "idle" /\ pc'[r] = "threw") =>
                /\ getSearchStats' = getSearchStats
                /\ heap'[results'] = heap[results]]_vars

\* C29: in every reachable state, also while two invocations on the same
\* engine overlap, completedSearches is at most totalPlatforms, the number of
\* stored results is at most totalPlatforms, and every percent reported lies
\* between 0 and 100.
C29_CountersWithinTotal ==
    /\ completedSearches <= totalPlatforms
    /\ Len(heap[results]) <= totalPlatforms
    /\ \A r \in Runs : \A i \in DOMAIN events[r] :
            /\ events[r][i].den > 0
            /\ 0 <= events[r][i].num
            /\ events[r][i].num <= events[r][i].den

\* C30: a run with a valid query and an empty platform list issues no request
\* and takes no delay, reports exactly the initial event with 0 and then the
\* final event with 100 (no percent of 0/0), and returns an empty list, with
\* getSearchStats {total: 0, found: 0, completed: 0}.
C30_EmptyPlatformList ==
    \A r \in Runs :
        (/\ pc[r] # "idle"
         /\ BasicInputValidation(query[r], type[r]) = Accepted
         /\ selectedPlatforms[r] = <<>>)
        =>
            /\ Completed(r)
            /\ InFlightOf(r) = {}
            /\ requests[r] = <<>>
            /\ waits[r] = 0
            /\ Len(events[r]) = 2
            /\ events[r][1].text = "Initializing search..."
            /\ events[r][1].den > 0 /\ events[r][1].num = 0
            /\ events[r][2].text = "Search completed!"
            /\ events[r][2].den > 0 /\ events[r][2].num = events[r][2].den
            /\ ReturnedList(r) = <<>>
            /\ getSearchStats = [total |-> 0, found |-> 0, completed |-> 0]

C30_Witness ==
    \E r \in Runs :
        /\ Completed(r)
        /\ query[r] = Q_octocat
        /\ type[r] = "username"
        /\ selectedPlatforms[r] = <<>>
        /\ ReturnedList(r) = <<>>
        /\ Len(events[r]) = 2

====
